---- MODULE Spec2Model ----
(***************************************************************************)
(* Model of the puzzle search engine of puzzle_tools.py:                   *)
(* breadth_first_solve and depth_first_solve over the Puzzle contract      *)
(* (extensions, is_solved, fail_fast, structural equality) and the         *)
(* PuzzleNode structure they build.                                        *)
(*                                                                         *)
(* A puzzle configuration is a number 1..n; two configurations are         *)
(* structurally equal iff they are the same number.  The puzzle itself is  *)
(* given by three functions over configurations: the ordered list of       *)
(* extensions, the solved predicate and the fail_fast predicate.  Nodes    *)
(* are Python objects: they live in the arena `nodes` and are referred to  *)
(* by their index (object identity); None is 0.                            *)
(***************************************************************************)
EXTENDS Integers, Sequences, FiniteSets

\* ---- bounds of the puzzle family -------------------------------------
\* at most NumStates configurations, at most MaxMoves moves (entries of
\* the extension lists) in the whole puzzle
NumStates == 3
MaxMoves == 4

\* the configuration wrapped by the puzzle handed to the solvers
InitialPuzzle == 1

\* Python's None, for node references
None == 0

VARIABLES
    puzzle,       \* the Puzzle the driver holds: a WordLadderPuzzle, an
                  \*   MNPuzzle or a GridPegSolitairePuzzle; InitialPuzzle
                  \*   when the puzzle is taken up to renaming
    extensions,   \* configuration -> list of configurations: extensions()
    is_solved,    \* configuration -> BOOLEAN: is_solved()
    fail_fast,    \* configuration -> BOOLEAN: fail_fast()
    pc,           \* position of the driver: "main_bfs", "bfs_loop",
                  \*   "main_dfs", "dfs", "done"; "extensions" while it
                  \*   only takes extensions of the puzzle it holds;
                  \*   "nodes" while it only builds nodes
    nodes,        \* arena of every PuzzleNode constructed so far
    q,            \* _breadth_first_solve: deque of nodes
    seen,         \* _breadth_first_solve: tuple of seen configurations
    curr_node,    \* _breadth_first_solve: current node
    bfs_result,   \* value returned by breadth_first_solve
    stack,        \* _depth_first_solve: active calls that reached the loop
    ret,          \* _depth_first_solve: <<v>> when a call has just
                  \*   returned v to the frame below, <<>> otherwise
    dfs_result    \* value returned by depth_first_solve

vars == <<puzzle, extensions, is_solved, fail_fast, pc, nodes, q, seen,
          curr_node, bfs_result, stack, ret, dfs_result>>

puzzleVars == <<puzzle, extensions, is_solved, fail_fast>>
solverVars == <<pc, nodes, q, seen, curr_node, bfs_result, stack, ret,
                dfs_result>>
bfsVars == <<q, seen, curr_node, bfs_result>>
dfsVars == <<stack, ret, dfs_result>>

\* ---- helpers ----------------------------------------------------------
Range(s) == {s[i] : i \in 1..Len(s)}

Max(a, b) == IF a >= b THEN a ELSE b
Min(a, b) == IF a <= b THEN a ELSE b

\* the configurations reachable from those of `found` by zero or more
\* extensions of ext
RECURSIVE ReachableFrom(_, _)
ReachableFrom(ext, found) ==
    LET more == found \cup UNION {Range(ext[s]) : s \in found} IN
    IF more = found THEN found ELSE ReachableFrom(ext, more)

\* ---- the puzzles the solvers are run on ------------------------------
\* The solvers tell configurations apart by equality only, so a puzzle is
\* taken up to renaming: configurations are numbered in the order in which
\* the extension lists of 1, 2, ... first name them, 1 being the initial
\* one.  mx is the largest configuration named so far.

\* the largest of mx and the entries of the list l
RECURSIVE MaxIn(_, _)
MaxIn(l, mx) == IF l = <<>> THEN mx ELSE MaxIn(Tail(l), Max(mx, Head(l)))

\* the extension lists of at most k entries among 1..n (order matters, a
\* configuration may be listed twice) that name no configuration before
\* its predecessor in the numbering
RECURSIVE ExtLists(_, _, _)
ExtLists(n, k, mx) ==
    {<<>>} \cup
    IF k = 0
    THEN {}
    ELSE UNION {{<<e>> \o l : l \in ExtLists(n, k - 1, Max(mx, e))} :
                e \in 1..Min(mx + 1, n)}

\* the puzzles of n configurations that extend the lists g of the first
\* Len(g) configurations with at most k more moves; every configuration is
\* reachable from the initial one (the solvers never see any other)
RECURSIVE PuzzleGraphsFrom(_, _, _, _)
PuzzleGraphsFrom(g, n, k, mx) ==
    IF Len(g) = n
    THEN IF mx = n THEN {g} ELSE {}
    ELSE IF Len(g) + 1 > mx
    THEN {}
    ELSE UNION {PuzzleGraphsFrom(Append(g, l), n, k - Len(l), MaxIn(l, mx)) :
                l \in ExtLists(n, k, mx)}

PuzzleGraphs ==
    UNION {PuzzleGraphsFrom(<<>>, n, MaxMoves, 1) : n \in 1..NumStates}

\* ---- PuzzleNode -------------------------------------------------------
\* PuzzleNode(puzzle): children [], parent None, in_solution False
PuzzleNode(puzz) ==
    [puzzle |-> puzz, parent |-> None, children |-> <<>>,
     in_solution |-> FALSE]

\* ---- breadth_first_solve ---------------------------------------------
\* BfsExtend with the parent link set to the node constructed last instead
\* of curr_node
RECURSIVE BfsExtendWrongParent(_, _, _, _, _, _)
BfsExtendWrongParent(exts, i, curr, ns, qq, sn) ==
    IF i > Len(exts)
    THEN [nodes |-> ns, q |-> qq, seen |-> sn]
    ELSE LET p == exts[i] IN
         IF p \notin Range(sn)
         THEN BfsExtendWrongParent(exts, i + 1, curr,
                        Append(ns, [PuzzleNode(p) EXCEPT !.parent = Len(ns)]),
                        Append(qq, Len(ns) + 1),
                        Append(sn, p))
         ELSE BfsExtendWrongParent(exts, i + 1, curr, ns, qq, sn)

\* BfsExtend with a for loop that stops after its first extension
BfsExtendFirstOnly(exts, i, curr, ns, qq, sn) ==
    IF i > Len(exts) \/ i > 1
    THEN [nodes |-> ns, q |-> qq, seen |-> sn]
    ELSE LET p == exts[i] IN
         IF p \notin Range(sn)
         THEN [nodes |-> Append(ns, [PuzzleNode(p) EXCEPT !.parent = curr]),
               q |-> Append(qq, Len(ns) + 1),
               seen |-> Append(sn, p)]
         ELSE [nodes |-> ns, q |-> qq, seen |-> sn]

\* BfsExtend that records a new configuration as seen only when its node is
\* dequeued
RECURSIVE BfsExtendSeenOnDequeue(_, _, _, _, _, _)
BfsExtendSeenOnDequeue(exts, i, curr, ns, qq, sn) ==
    IF i > Len(exts)
    THEN [nodes |-> ns, q |-> qq, seen |-> sn]
    ELSE LET p == exts[i]
             r == BfsExtendSeenOnDequeue(exts, i + 1, curr,
                        Append(ns, [PuzzleNode(p) EXCEPT !.parent = curr]),
                        Append(qq, Len(ns) + 1), sn)
         IN IF p \notin Range(sn)
            THEN r
            ELSE BfsExtendSeenOnDequeue(exts, i + 1, curr, ns, qq, sn)

\* BfsExtend that leaves out the extensions of which fail_fast holds
RECURSIVE BfsExtendSkipsFailFast(_, _, _, _, _, _)
BfsExtendSkipsFailFast(exts, i, curr, ns, qq, sn) ==
    IF i > Len(exts)
    THEN [nodes |-> ns, q |-> qq, seen |-> sn]
    ELSE LET p == exts[i] IN
         IF p \notin Range(sn) /\ ~fail_fast[p]
         THEN BfsExtendSkipsFailFast(exts, i + 1, curr,
                        Append(ns, [PuzzleNode(p) EXCEPT !.parent = curr]),
                        Append(qq, Len(ns) + 1),
                        Append(sn, p))
         ELSE BfsExtendSkipsFailFast(exts, i + 1, curr, ns, qq, sn)

\* the for loop over curr_node.puzzle.extensions(), from index i on
RECURSIVE BfsExtend(_, _, _, _, _, _)
BfsExtend(exts, i, curr, ns, qq, sn) ==
    IF i > Len(exts)
    THEN [nodes |-> ns, q |-> qq, seen |-> sn]
    ELSE LET p == exts[i] IN
         IF p \notin Range(sn)
         THEN BfsExtend(exts, i + 1, curr,
                        Append(ns, [PuzzleNode(p) EXCEPT !.parent = curr]),
                        Append(qq, Len(ns) + 1),
                        Append(sn, p))
         ELSE BfsExtend(exts, i + 1, curr, ns, qq, sn)

\* the while loop that links the chain from the solved node up to the root
RECURSIVE BfsLink(_, _)
BfsLink(curr, ns) ==
    IF ns[curr].parent /= None
    THEN LET par == ns[curr].parent IN
         BfsLink(par, [ns EXCEPT ![par].children = Append(@, curr)])
    ELSE [nodes |-> ns, curr_node |-> curr]

\* BfsLoopCondition without the is_solved test: the loop empties the queue
BfsLoopConditionUntilEmpty ==
    Len(q) > 0

\* BfsLoopCondition without the test of the queue
BfsLoopConditionNoQueueTest ==
    ~is_solved[nodes[curr_node].puzzle]

\* BfsLoopCondition with is_solved tested only once a node was dequeued
BfsLoopConditionTestedLast ==
    (seen = <<>> \/ ~is_solved[nodes[curr_node].puzzle]) /\ Len(q) > 0

\* while not curr_node.puzzle.is_solved() and len(q) > 0
BfsLoopCondition ==
    ~is_solved[nodes[curr_node].puzzle] /\ Len(q) > 0

\* seen = (), q = deque(), curr_node = PuzzleNode(puzz), q.append(curr_node)
BfsStart ==
    /\ pc = "main_bfs"
    /\ nodes' = Append(nodes, PuzzleNode(InitialPuzzle))
    /\ curr_node' = Len(nodes) + 1
    /\ q' = <<Len(nodes) + 1>>
    /\ seen' = <<>>
    /\ pc' = "bfs_loop"
    /\ UNCHANGED <<puzzleVars, bfs_result, dfsVars>>

\* BfsDequeue that takes the node at the right end of the deque
BfsDequeueFromRight ==
    /\ pc = "bfs_loop"
    /\ BfsLoopCondition
    /\ q /= <<>>
    /\ LET curr == q[Len(q)]
           r == BfsExtend(extensions[nodes[curr].puzzle], 1, curr, nodes,
                          SubSeq(q, 1, Len(q) - 1),
                          Append(seen, nodes[curr].puzzle))
       IN /\ curr_node' = curr
          /\ nodes' = r.nodes
          /\ q' = r.q
          /\ seen' = r.seen
    /\ UNCHANGED <<puzzleVars, pc, bfs_result, dfsVars>>

\* one iteration of the while loop: popleft, then the for loop over the
\* extensions.  popleft of an empty deque raises IndexError: the solver
\* takes no further step.
BfsDequeue ==
    /\ pc = "bfs_loop"
    /\ BfsLoopCondition
    /\ q /= <<>>
    /\ LET curr == Head(q)
           r == BfsExtend(extensions[nodes[curr].puzzle], 1, curr, nodes,
                          Tail(q), Append(seen, nodes[curr].puzzle))
       IN /\ curr_node' = curr
          /\ nodes' = r.nodes
          /\ q' = r.q
          /\ seen' = r.seen
    /\ UNCHANGED <<puzzleVars, pc, bfs_result, dfsVars>>

\* BfsReturn that takes the search for failed when the queue is empty
BfsReturnNeedsQueue ==
    /\ pc = "bfs_loop"
    /\ ~BfsLoopCondition
    /\ IF is_solved[nodes[curr_node].puzzle] /\ Len(q) > 0
       THEN LET r == BfsLink(curr_node, nodes) IN
            /\ nodes' = r.nodes
            /\ curr_node' = r.curr_node
            /\ bfs_result' = r.curr_node
       ELSE /\ bfs_result' = None
            /\ UNCHANGED <<nodes, curr_node>>
    /\ pc' = "main_dfs"
    /\ UNCHANGED <<puzzleVars, q, seen, dfsVars>>

\* after the loop: link and return the root, or return None
BfsReturn ==
    /\ pc = "bfs_loop"
    /\ ~BfsLoopCondition
    /\ IF is_solved[nodes[curr_node].puzzle]
       THEN LET r == BfsLink(curr_node, nodes) IN
            /\ nodes' = r.nodes
            /\ curr_node' = r.curr_node
            /\ bfs_result' = r.curr_node
       ELSE /\ bfs_result' = None
            /\ UNCHANGED <<nodes, curr_node>>
    /\ pc' = "main_dfs"
    /\ UNCHANGED <<puzzleVars, q, seen, dfsVars>>

\* ---- depth_first_solve -----------------------------------------------
\* DfsEnter with a scan of seen that skips its first entry
DfsEnterSkipsFirstSeen(puzz, seenArg, ns) ==
    LET curr == Len(ns) + 1
        ns1 == Append(ns, PuzzleNode(puzz))
    IN IF puzz \in {ns[seenArg[x]].puzzle : x \in 2..Len(seenArg)}
       THEN [nodes |-> ns1, ret |-> <<None>>, frames |-> <<>>]
       ELSE IF fail_fast[puzz]
       THEN [nodes |-> ns1, ret |-> <<None>>, frames |-> <<>>]
       ELSE IF is_solved[puzz]
       THEN [nodes |-> [ns1 EXCEPT ![curr].in_solution = TRUE],
             ret |-> <<curr>>, frames |-> <<>>]
       ELSE [nodes |-> ns1, ret |-> <<>>,
             frames |-> <<[curr_node |-> curr, puzz |-> puzz,
                           seen |-> Append(seenArg, curr),
                           i |-> 1, broke |-> FALSE]>>]

\* DfsEnter without `seen += (curr_node,)` before the for loop
DfsEnterForgetsSeen(puzz, seenArg, ns) ==
    LET curr == Len(ns) + 1
        ns1 == Append(ns, PuzzleNode(puzz))
    IN IF puzz \in {ns[seenArg[x]].puzzle : x \in 1..Len(seenArg)}
       THEN [nodes |-> ns1, ret |-> <<None>>, frames |-> <<>>]
       ELSE IF fail_fast[puzz]
       THEN [nodes |-> ns1, ret |-> <<None>>, frames |-> <<>>]
       ELSE IF is_solved[puzz]
       THEN [nodes |-> [ns1 EXCEPT ![curr].in_solution = TRUE],
             ret |-> <<curr>>, frames |-> <<>>]
       ELSE [nodes |-> ns1, ret |-> <<>>,
             frames |-> <<[curr_node |-> curr, puzz |-> puzz,
                           seen |-> seenArg,
                           i |-> 1, broke |-> FALSE]>>]

\* DfsEnter with the parent link set when the node is constructed, to the
\* node of the calling frame, as breadth_first_solve does
DfsEnterSetsParent(puzz, seenArg, ns) ==
    LET curr == Len(ns) + 1
        par == IF seenArg = <<>> THEN None ELSE seenArg[Len(seenArg)]
        ns1 == Append(ns, [PuzzleNode(puzz) EXCEPT !.parent = par])
    IN IF puzz \in {ns[seenArg[x]].puzzle : x \in 1..Len(seenArg)}
       THEN [nodes |-> ns1, ret |-> <<None>>, frames |-> <<>>]
       ELSE IF fail_fast[puzz]
       THEN [nodes |-> ns1, ret |-> <<None>>, frames |-> <<>>]
       ELSE IF is_solved[puzz]
       THEN [nodes |-> [ns1 EXCEPT ![curr].in_solution = TRUE],
             ret |-> <<curr>>, frames |-> <<>>]
       ELSE [nodes |-> ns1, ret |-> <<>>,
             frames |-> <<[curr_node |-> curr, puzz |-> puzz,
                           seen |-> Append(seenArg, curr),
                           i |-> 1, broke |-> FALSE]>>]

\* DfsEnter that tests is_solved before fail_fast
DfsEnterSolvedFirst(puzz, seenArg, ns) ==
    LET curr == Len(ns) + 1
        ns1 == Append(ns, PuzzleNode(puzz))
    IN IF puzz \in {ns[seenArg[x]].puzzle : x \in 1..Len(seenArg)}
       THEN [nodes |-> ns1, ret |-> <<None>>, frames |-> <<>>]
       ELSE IF is_solved[puzz]
       THEN [nodes |-> [ns1 EXCEPT ![curr].in_solution = TRUE],
             ret |-> <<curr>>, frames |-> <<>>]
       ELSE IF fail_fast[puzz]
       THEN [nodes |-> ns1, ret |-> <<None>>, frames |-> <<>>]
       ELSE [nodes |-> ns1, ret |-> <<>>,
             frames |-> <<[curr_node |-> curr, puzz |-> puzz,
                           seen |-> Append(seenArg, curr),
                           i |-> 1, broke |-> FALSE]>>]

\* DfsEnter without the fail_fast branch
DfsEnterNoFailFast(puzz, seenArg, ns) ==
    LET curr == Len(ns) + 1
        ns1 == Append(ns, PuzzleNode(puzz))
    IN IF puzz \in {ns[seenArg[x]].puzzle : x \in 1..Len(seenArg)}
       THEN [nodes |-> ns1, ret |-> <<None>>, frames |-> <<>>]
       ELSE IF is_solved[puzz]
       THEN [nodes |-> [ns1 EXCEPT ![curr].in_solution = TRUE],
             ret |-> <<curr>>, frames |-> <<>>]
       ELSE [nodes |-> ns1, ret |-> <<>>,
             frames |-> <<[curr_node |-> curr, puzz |-> puzz,
                           seen |-> Append(seenArg, curr),
                           i |-> 1, broke |-> FALSE]>>]

\* the part of _depth_first_solve(puzz, seen) up to the for loop: the new
\* arena, the value returned at once (<<v>>) or <<>> with the frame that
\* enters the loop
DfsEnter(puzz, seenArg, ns) ==
    LET curr == Len(ns) + 1
        ns1 == Append(ns, PuzzleNode(puzz))
    IN IF puzz \in {ns[seenArg[x]].puzzle : x \in 1..Len(seenArg)}
       THEN [nodes |-> ns1, ret |-> <<None>>, frames |-> <<>>]
       ELSE IF fail_fast[puzz]
       THEN [nodes |-> ns1, ret |-> <<None>>, frames |-> <<>>]
       ELSE IF is_solved[puzz]
       THEN [nodes |-> [ns1 EXCEPT ![curr].in_solution = TRUE],
             ret |-> <<curr>>, frames |-> <<>>]
       ELSE [nodes |-> ns1, ret |-> <<>>,
             frames |-> <<[curr_node |-> curr, puzz |-> puzz,
                           seen |-> Append(seenArg, curr),
                           i |-> 1, broke |-> FALSE]>>]

\* return _depth_first_solve(puzzle)
DfsStart ==
    /\ pc = "main_dfs"
    /\ LET r == DfsEnter(InitialPuzzle, <<>>, nodes) IN
       /\ nodes' = r.nodes
       /\ ret' = r.ret
       /\ stack' = r.frames
    /\ pc' = "dfs"
    /\ UNCHANGED <<puzzleVars, bfsVars, dfs_result>>

Top == stack[Len(stack)]

\* DfsRecurse that hands the call one seen shared by the whole search:
\* every node depth_first_solve has constructed so far
DfsRecurseSharedSeen ==
    /\ pc = "dfs"
    /\ stack /= <<>>
    /\ ret = <<>>
    /\ ~Top.broke
    /\ Top.i <= Len(extensions[Top.puzz])
    /\ LET first == stack[1].curr_node
           shared == [k \in 1..(Len(nodes) - first + 1) |-> first + k - 1]
           r == DfsEnter(extensions[Top.puzz][Top.i], shared, nodes)
       IN /\ nodes' = r.nodes
          /\ ret' = r.ret
          /\ stack' = stack \o r.frames
    /\ UNCHANGED <<puzzleVars, pc, bfsVars, dfs_result>>

\* DfsRecurse that walks the extensions from the last to the first
DfsRecurseReversed ==
    /\ pc = "dfs"
    /\ stack /= <<>>
    /\ ret = <<>>
    /\ ~Top.broke
    /\ Top.i <= Len(extensions[Top.puzz])
    /\ LET exts == extensions[Top.puzz]
           r == DfsEnter(exts[Len(exts) - Top.i + 1], Top.seen, nodes)
       IN /\ nodes' = r.nodes
          /\ ret' = r.ret
          /\ stack' = stack \o r.frames
    /\ UNCHANGED <<puzzleVars, pc, bfsVars, dfs_result>>

\* new_node = _depth_first_solve(p, seen=seen) for the next extension p
DfsRecurse ==
    /\ pc = "dfs"
    /\ stack /= <<>>
    /\ ret = <<>>
    /\ ~Top.broke
    /\ Top.i <= Len(extensions[Top.puzz])
    /\ LET r == DfsEnter(extensions[Top.puzz][Top.i], Top.seen, nodes) IN
       /\ nodes' = r.nodes
       /\ ret' = r.ret
       /\ stack' = stack \o r.frames
    /\ UNCHANGED <<puzzleVars, pc, bfsVars, dfs_result>>

\* DfsResume that gives the loop up when its first extension yields nothing
DfsResumeFirstOnly ==
    /\ pc = "dfs"
    /\ stack /= <<>>
    /\ ret /= <<>>
    /\ LET new_node == ret[1]
           d == Len(stack)
       IN IF new_node /= None /\ nodes[new_node].in_solution
          THEN /\ nodes' = [nodes EXCEPT
                              ![Top.curr_node].children = Append(@, new_node)]
               /\ stack' = [stack EXCEPT ![d].broke = TRUE]
          ELSE /\ stack' = [stack EXCEPT ![d].broke = TRUE]
               /\ UNCHANGED nodes
    /\ ret' = <<>>
    /\ UNCHANGED <<puzzleVars, pc, bfsVars, dfs_result>>

\* DfsResume without the break: the loop goes on after a child was attached
DfsResumeNoBreak ==
    /\ pc = "dfs"
    /\ stack /= <<>>
    /\ ret /= <<>>
    /\ LET new_node == ret[1]
           d == Len(stack)
       IN IF new_node /= None /\ nodes[new_node].in_solution
          THEN /\ nodes' = [nodes EXCEPT
                              ![Top.curr_node].children = Append(@, new_node)]
               /\ stack' = [stack EXCEPT ![d].i = @ + 1]
          ELSE /\ stack' = [stack EXCEPT ![d].i = @ + 1]
               /\ UNCHANGED nodes
    /\ ret' = <<>>
    /\ UNCHANGED <<puzzleVars, pc, bfsVars, dfs_result>>

\* if new_node and new_node.in_solution: children.append(new_node); break
DfsResume ==
    /\ pc = "dfs"
    /\ stack /= <<>>
    /\ ret /= <<>>
    /\ LET new_node == ret[1]
           d == Len(stack)
       IN IF new_node /= None /\ nodes[new_node].in_solution
          THEN /\ nodes' = [nodes EXCEPT
                              ![Top.curr_node].children = Append(@, new_node)]
               /\ stack' = [stack EXCEPT ![d].broke = TRUE]
          ELSE /\ stack' = [stack EXCEPT ![d].i = @ + 1]
               /\ UNCHANGED nodes
    /\ ret' = <<>>
    /\ UNCHANGED <<puzzleVars, pc, bfsVars, dfs_result>>

\* DfsAdopt that marks nothing: no call that reached its loop is ever in
\* the solution
DfsAdoptNothing(curr, k, ns) == ns

\* for p in curr_node.children: if p and p.in_solution: p.parent = curr_node;
\* curr_node.in_solution = True
RECURSIVE DfsAdopt(_, _, _)
DfsAdopt(curr, k, ns) ==
    IF k > Len(ns[curr].children)
    THEN ns
    ELSE LET p == ns[curr].children[k] IN
         IF p /= None /\ ns[p].in_solution
         THEN DfsAdopt(curr, k + 1,
                       [ns EXCEPT ![p].parent = curr,
                                  ![curr].in_solution = TRUE])
         ELSE DfsAdopt(curr, k + 1, ns)

\* the code after the for loop:
\* return curr_node if curr_node.in_solution else None
DfsExit ==
    /\ pc = "dfs"
    /\ stack /= <<>>
    /\ ret = <<>>
    /\ Top.broke \/ Top.i > Len(extensions[Top.puzz])
    /\ LET ns == DfsAdopt(Top.curr_node, 1, nodes) IN
       /\ nodes' = ns
       /\ ret' = IF ns[Top.curr_node].in_solution
                 THEN <<Top.curr_node>> ELSE <<None>>
    /\ stack' = SubSeq(stack, 1, Len(stack) - 1)
    /\ UNCHANGED <<puzzleVars, pc, bfsVars, dfs_result>>

\* the outermost call has returned: depth_first_solve returns its value
DfsReturn ==
    /\ pc = "dfs"
    /\ stack = <<>>
    /\ ret /= <<>>
    /\ dfs_result' = ret[1]
    /\ ret' = <<>>
    /\ pc' = "done"
    /\ UNCHANGED <<puzzleVars, nodes, bfsVars, stack>>

\* ---- the system ------------------------------------------------------
Init ==
    /\ puzzle = InitialPuzzle
    /\ extensions \in PuzzleGraphs
    /\ is_solved \in [DOMAIN extensions -> BOOLEAN]
    /\ fail_fast \in [DOMAIN extensions -> BOOLEAN]
    /\ pc = "main_bfs"
    /\ nodes = <<>>
    /\ q = <<>>
    /\ seen = <<>>
    /\ curr_node = None
    /\ bfs_result = None
    /\ stack = <<>>
    /\ ret = <<>>
    /\ dfs_result = None

Next ==
    \/ BfsStart
    \/ BfsDequeue
    \/ BfsReturn
    \/ DfsStart
    \/ DfsRecurse
    \/ DfsResume
    \/ DfsExit
    \/ DfsReturn

Spec == Init /\ [][Next]_vars

\* the solvers run in one thread that always takes its next step
FairSpec == Spec /\ WF_vars(Next)

\* ---- vocabulary of the properties -----------------------------------
\* breadth_first_solve has returned: looked at when it returns and again
\* at the end of the run; depth_first_solve has returned
BfsReturned == pc \in {"main_dfs", "done"}
DfsReturned == pc = "done"

\* the nodes met from node n on by following the first child, at most
\* fuel links far
RECURSIVE ChainFrom(_, _)
ChainFrom(n, fuel) ==
    IF fuel = 0 \/ nodes[n].children = <<>>
    THEN <<n>>
    ELSE <<n>> \o ChainFrom(nodes[n].children[1], fuel - 1)

\* the chain of nodes under a returned root, and its configurations
ChainNodes(root) == ChainFrom(root, Len(nodes))
ChainStates(root) ==
    [i \in 1..Len(ChainNodes(root)) |-> nodes[ChainNodes(root)[i]].puzzle]
ChainSteps(root) == Len(ChainNodes(root)) - 1

\* the configurations at most k extensions away from the initial one
RECURSIVE WithinSteps(_)
WithinSteps(k) ==
    IF k = 0
    THEN {InitialPuzzle}
    ELSE LET w == WithinSteps(k - 1) IN
         w \cup UNION {Range(extensions[s]) : s \in w}

Solved == {s \in DOMAIN is_solved : is_solved[s]}

\* a solved configuration is reachable from s by zero or more extensions
CanReachSolved(s) == ReachableFrom(extensions, {s}) \cap Solved /= {}

\* the contract of fail_fast: true only where no solution can be reached
FailFastSound == \A s \in DOMAIN fail_fast : fail_fast[s] => ~CanReachSolved(s)

\* some configuration can be reached again from itself
HasCycle ==
    \E s \in DOMAIN extensions :
        s \in ReachableFrom(extensions, Range(extensions[s]))

\* the sequence c of configurations starts at the initial one, moves by
\* extensions and ends solved
ValidChain(c) ==
    /\ c[1] = InitialPuzzle
    /\ \A i \in 1..(Len(c) - 1) : c[i + 1] \in Range(extensions[c[i]])
    /\ is_solved[c[Len(c)]]

\* ---- C1 --------------------------------------------------------------
\* C1: when a solved configuration is reachable, breadth_first_solve
\* returns a chain whose number of steps is the least number of extensions
\* after which a solved configuration can be reached: no sequence of fewer
\* extensions from the initial configuration ends solved.
C1_BfsShortest ==
    (BfsReturned /\ CanReachSolved(InitialPuzzle)) =>
        /\ bfs_result /= None
        /\ WithinSteps(ChainSteps(bfs_result)) \cap Solved /= {}
        /\ \A k \in 0..(ChainSteps(bfs_result) - 1) :
              WithinSteps(k) \cap Solved = {}

\* breadth-first returned a chain of one step or more although a longer
\* solution exists, which depth-first returned, and the graph has a cycle
C1_Witness ==
    /\ DfsReturned
    /\ bfs_result /= None /\ dfs_result /= None
    /\ ChainSteps(bfs_result) >= 1
    /\ ChainSteps(dfs_result) > ChainSteps(bfs_result)
    /\ HasCycle

\* ---- C2 --------------------------------------------------------------
\* C2: a chain returned by either solver starts at the initial puzzle,
\* each of its configurations is an extension of the one before, and its
\* last configuration is solved.
C2_ChainValid ==
    /\ (BfsReturned /\ bfs_result /= None) =>
          ValidChain(ChainStates(bfs_result))
    /\ (DfsReturned /\ dfs_result /= None) =>
          ValidChain(ChainStates(dfs_result))

\* both solvers returned chains of at least two steps
C2_Witness ==
    /\ DfsReturned
    /\ bfs_result /= None /\ dfs_result /= None
    /\ ChainSteps(bfs_result) >= 2
    /\ ChainSteps(dfs_result) >= 2

\* ---- C3 --------------------------------------------------------------
\* C3: both solvers terminate on every puzzle, cyclic or not: the run of
\* breadth_first_solve followed by depth_first_solve reaches its end.
C3_Terminates == <>(pc = "done")

\* both solvers have returned nothing on a puzzle whose graph has a cycle
C3_Witness ==
    /\ DfsReturned
    /\ HasCycle
    /\ bfs_result = None /\ dfs_result = None

\* ---- C4 --------------------------------------------------------------
\* C4: breadth_first_solve returns nothing exactly when no solved
\* configuration is reachable from the initial one.
C4_BfsNoneIffUnsolvable ==
    BfsReturned => ((bfs_result = None) <=> ~CanReachSolved(InitialPuzzle))

\* a chain was returned for a solved node that was the last one dequeued,
\* the queue being empty then
C4_Witness ==
    /\ BfsReturned
    /\ bfs_result /= None
    /\ ChainSteps(bfs_result) >= 1
    /\ q = <<>>

\* ---- C5 --------------------------------------------------------------
\* C5: with a sound fail_fast, depth_first_solve returns nothing exactly
\* when no solved configuration is reachable from the initial one.
C5_DfsNoneIffUnsolvable ==
    (DfsReturned /\ FailFastSound) =>
        ((dfs_result = None) <=> ~CanReachSolved(InitialPuzzle))

\* a chain was returned although the search met a configuration a second
\* time (two depth-first nodes wrap the same configuration) and fail_fast
\* is true somewhere
C5_Witness ==
    /\ DfsReturned /\ FailFastSound
    /\ dfs_result /= None
    /\ \E s \in DOMAIN fail_fast : fail_fast[s]
    /\ \E i, j \in ChainNodes(dfs_result)[1]..Len(nodes) :
          i /= j /\ nodes[i].puzzle = nodes[j].puzzle

\* ---- C6 --------------------------------------------------------------
\* the node r wraps the initial puzzle and has no parent and no children
SingleNodeChain(r) ==
    /\ r /= None
    /\ nodes[r].puzzle = InitialPuzzle
    /\ nodes[r].parent = None
    /\ nodes[r].children = <<>>

\* breadth_first_solve returned the root without running its loop body:
\* the root is still queued and nothing was recorded as seen
BfsLoopNeverRan ==
    /\ SingleNodeChain(bfs_result)
    /\ q = <<bfs_result>>
    /\ seen = <<>>

\* C6 as stated: if the initial configuration is solved, both solvers
\* return a single-node chain, and the breadth-first loop body never runs.
C6_SolvedInitial ==
    is_solved[InitialPuzzle] =>
        /\ BfsReturned => BfsLoopNeverRan
        /\ DfsReturned => SingleNodeChain(dfs_result)

\* C6, amended: if the initial configuration is solved, breadth_first_solve
\* returns a single-node chain and its loop body never runs;
\* depth_first_solve returns a single-node chain if fail_fast is false on
\* the initial configuration, and nothing if it is true.
C6_SolvedInitialNoFailFast ==
    is_solved[InitialPuzzle] =>
        /\ BfsReturned => BfsLoopNeverRan
        /\ DfsReturned =>
              IF fail_fast[InitialPuzzle]
              THEN dfs_result = None
              ELSE SingleNodeChain(dfs_result)

\* both solvers returned on a solved initial configuration that has
\* extensions
C6_Witness ==
    /\ DfsReturned
    /\ is_solved[InitialPuzzle] /\ ~fail_fast[InitialPuzzle]
    /\ extensions[InitialPuzzle] /= <<>>
    /\ SingleNodeChain(bfs_result) /\ SingleNodeChain(dfs_result)

\* ---- C7 --------------------------------------------------------------
\* the simple paths of configurations that start with the path p
RECURSIVE PathsExtending(_)
PathsExtending(p) ==
    {p} \cup UNION {PathsExtending(Append(p, t)) :
                      t \in Range(extensions[p[Len(p)]]) \ Range(p)}

\* the solutions depth-first search can walk: simple paths from the
\* initial configuration to a solved one, through unsolved configurations,
\* fail_fast false all along
SolutionPaths ==
    {p \in PathsExtending(<<InitialPuzzle>>) :
        /\ \A i \in 1..Len(p) : ~fail_fast[p[i]]
        /\ \A i \in 1..(Len(p) - 1) : ~is_solved[p[i]]
        /\ is_solved[p[Len(p)]]}

\* the place of t in the extension list of s
Position(s, t) ==
    CHOOSE i \in 1..Len(extensions[s]) :
        /\ extensions[s][i] = t
        /\ \A j \in 1..(i - 1) : extensions[s][j] /= t

\* the solution p comes before the solution r in extension order: where
\* they part, p takes the extension listed first
BeforeInExtensionOrder(p, r) ==
    \E j \in 2..Min(Len(p), Len(r)) :
        /\ \A i \in 1..(j - 1) : p[i] = r[i]
        /\ Position(p[j - 1], p[j]) < Position(p[j - 1], r[j])

\* C7: depth_first_solve returns the solution that comes first in
\* extension order, whatever its length.
C7_DfsFirstFound ==
    DfsReturned =>
        IF SolutionPaths = {}
        THEN dfs_result = None
        ELSE /\ dfs_result /= None
             /\ ChainStates(dfs_result) \in SolutionPaths
             /\ \A r \in SolutionPaths \ {ChainStates(dfs_result)} :
                   BeforeInExtensionOrder(ChainStates(dfs_result), r)

\* the longer of two solutions came first in extension order:
\* depth-first returned a strictly longer chain than breadth-first
C7_Witness ==
    /\ DfsReturned
    /\ bfs_result /= None /\ dfs_result /= None
    /\ ChainSteps(dfs_result) > ChainSteps(bfs_result)
    /\ Cardinality(SolutionPaths) >= 2

\* ---- C8 --------------------------------------------------------------
\* The two solvers as functions of the puzzle, for runs on a puzzle whose
\* extensions are listed in another order (ext); what they return is given
\* as the sequence of configurations of the chain, <<>> standing for None.

\* _depth_first_solve(puzz, seen), seen given by its configurations
RECURSIVE DepthFirstChain(_, _, _)
RECURSIVE DepthFirstLoop(_, _, _, _)
DepthFirstChain(ext, puzz, seenStates) ==
    IF puzz \in seenStates
    THEN <<>>
    ELSE IF fail_fast[puzz]
    THEN <<>>
    ELSE IF is_solved[puzz]
    THEN <<puzz>>
    ELSE LET sub == DepthFirstLoop(ext, ext[puzz], 1,
                                   seenStates \cup {puzz})
         IN IF sub /= <<>> THEN <<puzz>> \o sub ELSE <<>>

\* its for loop from extension i on: the chain of the first extension that
\* yields one
DepthFirstLoop(ext, exts, i, seenStates) ==
    IF i > Len(exts)
    THEN <<>>
    ELSE LET new_node == DepthFirstChain(ext, exts[i], seenStates) IN
         IF new_node /= <<>>
         THEN new_node
         ELSE DepthFirstLoop(ext, exts, i + 1, seenStates)

\* the for loop of _breadth_first_solve; a queued node is given by the
\* path of configurations its parent links spell, root first
RECURSIVE BreadthFirstExtend(_, _, _, _, _)
BreadthFirstExtend(exts, i, curr, qq, sn) ==
    IF i > Len(exts)
    THEN [q |-> qq, seen |-> sn]
    ELSE IF exts[i] \notin sn
    THEN BreadthFirstExtend(exts, i + 1, curr,
                            Append(qq, Append(curr, exts[i])),
                            sn \cup {exts[i]})
    ELSE BreadthFirstExtend(exts, i + 1, curr, qq, sn)

\* the while loop of _breadth_first_solve and what follows it
RECURSIVE BreadthFirstLoop(_, _, _, _)
BreadthFirstLoop(ext, curr, qq, sn) ==
    IF ~is_solved[curr[Len(curr)]] /\ Len(qq) > 0
    THEN LET c == Head(qq)
             r == BreadthFirstExtend(ext[c[Len(c)]], 1, c, Tail(qq),
                                     sn \cup {c[Len(c)]})
         IN BreadthFirstLoop(ext, c, r.q, r.seen)
    ELSE IF is_solved[curr[Len(curr)]] THEN curr ELSE <<>>

depth_first_solve(ext) == DepthFirstChain(ext, InitialPuzzle, {})
breadth_first_solve(ext) ==
    BreadthFirstLoop(ext, <<InitialPuzzle>>, <<<<InitialPuzzle>>>>, {})

\* the permutations of 1..k, for each k
IndexPermutations ==
    [k \in 0..MaxMoves |->
        {f \in [1..k -> 1..k] : \A i, j \in 1..k : i /= j => f[i] /= f[j]}]

\* the lists that hold the entries of l in some order
Reordered(l) == {[i \in 1..Len(l) |-> l[f[i]]] : f \in IndexPermutations[Len(l)]}

\* the puzzles that list the same extensions as ext, each list in some
\* order, g being the lists chosen for the first Len(g) configurations
RECURSIVE ReorderingsFrom(_, _)
ReorderingsFrom(g, ext) ==
    IF Len(g) = Len(ext)
    THEN {g}
    ELSE UNION {ReorderingsFrom(Append(g, l), ext) :
                l \in Reordered(ext[Len(g) + 1])}

Reorderings(ext) == ReorderingsFrom(<<>>, ext)

\* what a run returned, as a sequence of configurations
Returned(r) == IF r = None THEN <<>> ELSE ChainStates(r)

\* the functions above return what the runs of the solvers return
SolversAgree ==
    /\ BfsReturned => Returned(bfs_result) = breadth_first_solve(extensions)
    /\ DfsReturned => Returned(dfs_result) = depth_first_solve(extensions)

\* C8: with a sound fail_fast, listing the extensions in another order
\* changes neither whether a solver returns a chain nor the length of the
\* chain breadth_first_solve returns.
C8_OrderIndependent ==
    (DfsReturned /\ FailFastSound) =>
        \A g \in Reorderings(extensions) :
            /\ (depth_first_solve(g) = <<>>) <=> (dfs_result = None)
            /\ (breadth_first_solve(g) = <<>>) <=> (bfs_result = None)
            /\ Len(breadth_first_solve(g)) = Len(Returned(bfs_result))

\* under another order of the extensions depth-first returns another
\* chain, and breadth-first another chain of the same length
C8_Witness ==
    /\ DfsReturned /\ FailFastSound
    /\ dfs_result /= None
    /\ \E g \in Reorderings(extensions) :
          /\ depth_first_solve(g) /= <<>>
          /\ depth_first_solve(g) /= ChainStates(dfs_result)
          /\ breadth_first_solve(g) /= ChainStates(bfs_result)

\* ---- C9 --------------------------------------------------------------
\* the nodes reachable from those of `found` through children links
RECURSIVE Descendants(_, _)
Descendants(found, fuel) ==
    LET more == found \cup UNION {Range(nodes[n].children) : n \in found} IN
    IF more = found \/ fuel = 0 THEN found ELSE Descendants(more, fuel - 1)

\* the structure under the returned root r is one chain
LinearChain(r) ==
    LET c == ChainNodes(r) IN
    /\ nodes[r].parent = None
    /\ \A i, j \in 1..Len(c) : i /= j => c[i] /= c[j]
    /\ \A i \in 1..(Len(c) - 1) : Len(nodes[c[i]].children) = 1
    /\ nodes[c[Len(c)]].children = <<>>
    /\ is_solved[nodes[c[Len(c)]].puzzle]
    /\ \A i \in 2..Len(c) : nodes[c[i]].parent = c[i - 1]
    /\ Descendants({r}, Len(nodes)) = Range(c)

\* C9: what either solver returns is a strictly linear, acyclic chain:
\* the root has no parent, every node but the solved leaf has exactly one
\* child, the leaf has none, every other node's parent is the node holding
\* it as child, and children links lead to no node off the chain.
C9_LinearChain ==
    /\ (BfsReturned /\ bfs_result /= None) => LinearChain(bfs_result)
    /\ (DfsReturned /\ dfs_result /= None) => LinearChain(dfs_result)

\* both solvers returned chains of three nodes or more and constructed
\* nodes that are on neither chain
C9_Witness ==
    /\ DfsReturned
    /\ bfs_result /= None /\ dfs_result /= None
    /\ Len(ChainNodes(bfs_result)) >= 3
    /\ Len(ChainNodes(dfs_result)) >= 3
    /\ Len(nodes) > Len(ChainNodes(bfs_result)) + Len(ChainNodes(dfs_result))

\* ---- C10 -------------------------------------------------------------
Distinct(c) == \A i, j \in 1..Len(c) : i /= j => c[i] /= c[j]

\* C10: no configuration occurs twice on a chain returned by either
\* solver.
C10_ChainDistinct ==
    /\ (BfsReturned /\ bfs_result /= None) => Distinct(ChainStates(bfs_result))
    /\ (DfsReturned /\ dfs_result /= None) => Distinct(ChainStates(dfs_result))

\* both solvers returned chains of three configurations or more, one of
\* which has an extension back to an earlier configuration of the chain
C10_Witness ==
    /\ DfsReturned
    /\ bfs_result /= None /\ dfs_result /= None
    /\ \A r \in {bfs_result, dfs_result} :
          LET c == ChainStates(r) IN
          /\ Len(c) >= 3
          /\ \E i, j \in 1..Len(c) : i < j /\ c[i] \in Range(extensions[c[j]])

\* ---- C11 -------------------------------------------------------------
\* breadth_first_solve constructs the root and then one node for every
\* configuration it adds to seen for the first time (a dequeued node's
\* configuration is added a second time); the nodes constructed after
\* these are those of depth_first_solve
BfsNodes == 1..(IF seen = <<>> THEN 1 ELSE Cardinality(Range(seen)))
DfsNodes == {n \in 1..Len(nodes) : n \notin BfsNodes}

\* the nodes of the chain a solver returned, none if it returned nothing
OnChain(r) == IF r = None THEN {} ELSE Range(ChainNodes(r))

\* C11 as stated: when a solver returns, every node it constructed that is
\* not on the chain it returns has no parent.
C11_ParentOnlyOnChain ==
    /\ BfsReturned =>
          \A n \in BfsNodes \ OnChain(bfs_result) : nodes[n].parent = None
    /\ DfsReturned =>
          \A n \in DfsNodes \ OnChain(dfs_result) : nodes[n].parent = None

\* C11, amended: when depth_first_solve returns, every node it constructed
\* that is not on the chain it returns has no parent; breadth_first_solve
\* sets the parent of every node but the root when it constructs it, on the
\* chain or not: the parent is an earlier node, of which the node's
\* configuration is an extension.
C11_ParentOnlyOnDfsChain ==
    /\ DfsReturned =>
          \A n \in DfsNodes \ OnChain(dfs_result) : nodes[n].parent = None
    /\ BfsReturned =>
          /\ nodes[1].parent = None
          /\ \A n \in BfsNodes \ {1} :
                /\ nodes[n].parent \in 1..(n - 1)
                /\ nodes[n].puzzle
                      \in Range(extensions[nodes[nodes[n].parent].puzzle])

\* both solvers returned a chain of one step or more and each constructed
\* a node that is not on its chain; the one breadth-first constructed has
\* its parent set
C11_Witness ==
    /\ DfsReturned
    /\ bfs_result /= None /\ dfs_result /= None
    /\ ChainSteps(bfs_result) >= 1 /\ ChainSteps(dfs_result) >= 1
    /\ DfsNodes \ OnChain(dfs_result) /= {}
    /\ \E n \in BfsNodes \ OnChain(bfs_result) : nodes[n].parent /= None

\* ---- word_ladder_puzzle.py -------------------------------------------
\* A word is the sequence of its characters.

\* self._chars
Chars ==
    <<"a", "b", "c", "d", "e", "f", "g", "h", "i", "j", "k", "l", "m",
      "n", "o", "p", "q", "r", "s", "t", "u", "v", "w", "x", "y", "z">>

\* WordLadderPuzzle(from_word, to_word, ws); _chars is the same in every
\* WordLadderPuzzle
WordLadderPuzzle(from_word, to_word, ws) ==
    [from_word |-> from_word, to_word |-> to_word, word_set |-> ws]

\* the words new_word that the two for loops of extensions go through, in
\* their order, the positions i running up to last: for each position,
\* each character of _chars put in its place
WordLadderNewWords(p, last) ==
    [k \in 1..(last * Len(Chars)) |->
        [p.from_word EXCEPT ![((k - 1) \div Len(Chars)) + 1] =
                                Chars[((k - 1) % Len(Chars)) + 1]]]

\* the list the loops accumulate: a puzzle for every new_word that is in
\* the word set and is not from_word
WordLadderExtensionsUpTo(p, last) ==
    LET lst == SelectSeq(WordLadderNewWords(p, last),
                         LAMBDA new_word : /\ new_word \in p.word_set
                                           /\ new_word /= p.from_word)
    IN [j \in 1..Len(lst) |->
           WordLadderPuzzle(lst[j], p.to_word, p.word_set)]

\* extensions with a loop over the positions that leaves the last one out
WordLadderPuzzle_extensionsSkipLast(p) ==
    WordLadderExtensionsUpTo(p, Len(p.from_word) - 1)

\* WordLadderPuzzle.extensions
WordLadderPuzzle_extensions(p) ==
    WordLadderExtensionsUpTo(p, Len(p.from_word))

\* WordLadderPuzzle.is_solved
WordLadderPuzzle_is_solved(p) == p.from_word = p.to_word

\* fail_fast that compares the words instead of their lengths
WordLadderPuzzle_fail_fastWords(p) == p.from_word /= p.to_word

\* WordLadderPuzzle.fail_fast
WordLadderPuzzle_fail_fast(p) == Len(p.from_word) /= Len(p.to_word)

\* the words the puzzles are made of, in the order in which configurations
\* are numbered
cost == <<"c", "o", "s", "t">>
cast == <<"c", "a", "s", "t">>
case == <<"c", "a", "s", "e">>
cave == <<"c", "a", "v", "e">>
save == <<"s", "a", "v", "e">>
care == <<"c", "a", "r", "e">>
sam == <<"s", "a", "m">>
WordList == <<cost, cast, case, cave, save, care, sam>>

WordLadderPuzzles ==
    {WordLadderPuzzle(f, t, ws) :
        f \in Range(WordList), t \in Range(WordList),
        ws \in SUBSET Range(WordList)}

\* the configurations of a run on p: two puzzles of a run differ in
\* from_word only, so a configuration is a word; number 1 is p's own, the
\* others are the words of the word set
WordLadderConfigurations(p) ==
    <<p.from_word>> \o
    SelectSeq(WordList, LAMBDA w : w \in p.word_set /\ w /= p.from_word)

IndexIn(l, x) == CHOOSE i \in 1..Len(l) : l[i] = x

\* the puzzle of a run on p whose configuration has number i
WordLadderAt(p, i) ==
    [p EXCEPT !.from_word = WordLadderConfigurations(p)[i]]

\* extensions, is_solved and fail_fast of every configuration of a run on p
WordLadderExtensionTable(p) ==
    [i \in 1..Len(WordLadderConfigurations(p)) |->
        LET e == WordLadderPuzzle_extensions(WordLadderAt(p, i)) IN
        [j \in 1..Len(e) |->
            IndexIn(WordLadderConfigurations(p), e[j].from_word)]]
WordLadderSolvedTable(p) ==
    [i \in 1..Len(WordLadderConfigurations(p)) |->
        WordLadderPuzzle_is_solved(WordLadderAt(p, i))]
WordLadderFailFastTable(p) ==
    [i \in 1..Len(WordLadderConfigurations(p)) |->
        WordLadderPuzzle_fail_fast(WordLadderAt(p, i))]

\* no solver has started
NotStarted ==
    /\ nodes = <<>>
    /\ q = <<>>
    /\ seen = <<>>
    /\ curr_node = None
    /\ bfs_result = None
    /\ stack = <<>>
    /\ ret = <<>>
    /\ dfs_result = None

\* the driver holds a word ladder puzzle
WordLadderInit ==
    /\ puzzle \in WordLadderPuzzles
    /\ extensions = WordLadderExtensionTable(puzzle)
    /\ is_solved = WordLadderSolvedTable(puzzle)
    /\ fail_fast = WordLadderFailFastTable(puzzle)
    /\ pc = "main_bfs"
    /\ NotStarted

\* before it solves the puzzle the driver may take one of its extensions
\* in its place
WordLadderExtend ==
    /\ pc = "main_bfs"
    /\ \E e \in Range(WordLadderPuzzle_extensions(puzzle)) :
          /\ puzzle' = e
          /\ extensions' = WordLadderExtensionTable(e)
          /\ is_solved' = WordLadderSolvedTable(e)
          /\ fail_fast' = WordLadderFailFastTable(e)
    /\ UNCHANGED solverVars

WordLadderNext ==
    \/ WordLadderExtend
    \/ Next

WordLadderSpec == WordLadderInit /\ [][WordLadderNext]_vars

\* the words of the chain under the root r, nothing for None
ChainWords(r) ==
    IF r = None
    THEN <<>>
    ELSE [i \in 1..Len(ChainStates(r)) |->
             WordLadderConfigurations(puzzle)[ChainStates(r)[i]]]

\* ---- C12 -------------------------------------------------------------
\* C12: for the word ladder from "cost" to "save" over the words cost,
\* cast, case, cave, save, breadth_first_solve and depth_first_solve both
\* return the chain cost, cast, case, cave, save.
C12_CostToSave ==
    puzzle = WordLadderPuzzle(cost, save, {cost, cast, case, cave, save}) =>
        /\ BfsReturned =>
              ChainWords(bfs_result) = <<cost, cast, case, cave, save>>
        /\ DfsReturned =>
              ChainWords(dfs_result) = <<cost, cast, case, cave, save>>

\* both solvers have returned a chain on that puzzle
C12_Witness ==
    /\ puzzle = WordLadderPuzzle(cost, save, {cost, cast, case, cave, save})
    /\ DfsReturned
    /\ bfs_result /= None /\ dfs_result /= None
    /\ Len(ChainNodes(bfs_result)) = Len(ChainNodes(dfs_result))

\* ---- mn_puzzle.py ----------------------------------------------------
\* A grid is the sequence of its rows, a row the sequence of its symbols;
\* "*" is the empty space.

\* MNPuzzle(from_grid, to_grid)
MNPuzzle(from_grid, to_grid) ==
    [from_grid |-> from_grid, to_grid |-> to_grid,
     n |-> Len(from_grid), m |-> Len(from_grid[1])]

\* new_grid: the empty space put at (r2, c2), and the symbol that was
\* there at (row, column)
MNSwap(grid, row, column, r2, c2) ==
    [grid EXCEPT ![r2][c2] = "*", ![row][column] = grid[r2][c2]]

\* the four ifs of extensions for the empty space at (row, column): above,
\* below, left, right; columns is the number the last one tests column + 1
\* against
MNMoves(p, row, column, columns) ==
    (IF row - 1 >= 1
     THEN <<MNPuzzle(MNSwap(p.from_grid, row, column, row - 1, column),
                     p.to_grid)>>
     ELSE <<>>)
    \o (IF row + 1 <= p.n
        THEN <<MNPuzzle(MNSwap(p.from_grid, row, column, row + 1, column),
                        p.to_grid)>>
        ELSE <<>>)
    \o (IF column - 1 >= 1
        THEN <<MNPuzzle(MNSwap(p.from_grid, row, column, row, column - 1),
                        p.to_grid)>>
        ELSE <<>>)
    \o (IF column + 1 <= columns
        THEN <<MNPuzzle(MNSwap(p.from_grid, row, column, row, column + 1),
                        p.to_grid)>>
        ELSE <<>>)

\* the loops over the rows and the columns, from the k-th cell on, cells
\* counted row by row
RECURSIVE MNExtensionsFrom(_, _, _)
MNExtensionsFrom(p, k, columns) ==
    IF k > p.n * p.m
    THEN <<>>
    ELSE LET row == ((k - 1) \div p.m) + 1
             column == ((k - 1) % p.m) + 1
         IN (IF p.from_grid[row][column] = "*"
             THEN MNMoves(p, row, column, columns)
             ELSE <<>>)
            \o MNExtensionsFrom(p, k + 1, columns)

\* extensions that tests column + 1 against the number of rows
MNPuzzle_extensionsRowsForColumns(p) == MNExtensionsFrom(p, 1, p.n)

\* MNPuzzle.extensions
MNPuzzle_extensions(p) == MNExtensionsFrom(p, 1, p.m)

\* MNPuzzle.is_solved
MNPuzzle_is_solved(p) == p.from_grid = p.to_grid

\* the grids of __main__
target_grid == <<<<"1", "2", "3">>, <<"4", "5", "*">>>>
start_grid == <<<<"*", "2", "3">>, <<"1", "4", "5">>>>

\* the grids that hold the symbols of grid, each once, in the same shape
Arrangements(grid) ==
    LET rows == 1..Len(grid)
        columns == 1..Len(grid[1])
        symbols == {grid[r][c] : r \in rows, c \in columns}
    IN {g \in [rows -> [columns -> symbols]] :
           \A x \in symbols : \E r \in rows, c \in columns : g[r][c] = x}

MNPuzzles ==
    {MNPuzzle(from_grid, to_grid) :
        from_grid \in Arrangements(target_grid),
        to_grid \in {target_grid, start_grid}}

\* the driver holds an MNPuzzle and takes extensions of it; no solver runs
MNInit ==
    /\ puzzle \in MNPuzzles
    /\ extensions = <<>>
    /\ is_solved = <<>>
    /\ fail_fast = <<>>
    /\ pc = "extensions"
    /\ NotStarted

\* the driver goes on with one of the extensions of its puzzle
MNExtend ==
    /\ pc = "extensions"
    /\ puzzle' \in Range(MNPuzzle_extensions(puzzle))
    /\ UNCHANGED <<extensions, is_solved, fail_fast, solverVars>>

MNNext == MNExtend

MNSpec == MNInit /\ [][MNNext]_vars

\* ---- C13 -------------------------------------------------------------
\* the cells of the grid that hold the empty space
Blanks(grid) ==
    {rc \in (1..Len(grid)) \X (1..Len(grid[1])) : grid[rc[1]][rc[2]] = "*"}

\* the cells of the grid that are next to the cell rc in its row or in its
\* column
Adjacent(grid, rc) ==
    {xy \in (1..Len(grid)) \X (1..Len(grid[1])) :
        \/ xy[1] = rc[1] /\ (xy[2] = rc[2] + 1 \/ xy[2] = rc[2] - 1)
        \/ xy[2] = rc[2] /\ (xy[1] = rc[1] + 1 \/ xy[1] = rc[1] - 1)}

\* the grid with the symbols of the cells a and b exchanged
Exchanged(grid, a, b) ==
    [r \in 1..Len(grid) |->
        [c \in 1..Len(grid[1]) |->
            IF <<r, c>> = a THEN grid[b[1]][b[2]]
            ELSE IF <<r, c>> = b THEN grid[a[1]][a[2]]
            ELSE grid[r][c]]]

Corner(grid, rc) ==
    rc[1] \in {1, Len(grid)} /\ rc[2] \in {1, Len(grid[1])}

\* C13: for a 2x3 MNPuzzle with one empty space, extensions returns the
\* puzzles in which the empty space has changed places with a tile next to
\* it in its row or column, the goal grid being the same, each once: 2 of
\* them when the empty space is in a corner, 3 when it is not.
C13_MNExtensions ==
    \A blank \in Blanks(puzzle.from_grid) :
        LET exts == MNPuzzle_extensions(puzzle) IN
        /\ Range(exts) =
              {MNPuzzle(Exchanged(puzzle.from_grid, blank, xy),
                        puzzle.to_grid) :
                  xy \in Adjacent(puzzle.from_grid, blank)}
        /\ Distinct(exts)
        /\ Len(exts) = IF Corner(puzzle.from_grid, blank) THEN 2 ELSE 3

\* a 2x3 puzzle with one empty space, which is not in a corner, and
\* another with it in a corner
C13_Witness ==
    /\ puzzle \in MNPuzzles
    /\ puzzle.n = 2 /\ puzzle.m = 3
    /\ Cardinality(Blanks(puzzle.from_grid)) = 1
    /\ \E blank \in Blanks(puzzle.from_grid) :
          /\ ~Corner(puzzle.from_grid, blank)
          /\ \E e \in Range(MNPuzzle_extensions(puzzle)) :
                \E b2 \in Blanks(e.from_grid) : Corner(e.from_grid, b2)

\* ---- C14 -------------------------------------------------------------
\* the word ladder puzzles reachable from those of `found` by zero or more
\* extensions
RECURSIVE WordLadderReachable(_)
WordLadderReachable(found) ==
    LET more == found \cup
                UNION {Range(WordLadderPuzzle_extensions(p)) : p \in found}
    IN IF more = found THEN found ELSE WordLadderReachable(more)

\* C14: WordLadderPuzzle.fail_fast is true exactly when the word and the
\* goal word differ in length; extensions keep the length of the word, the
\* goal word and the word set; and from a puzzle on which fail_fast is
\* true no sequence of extensions reaches a solved puzzle.  The tables the
\* solvers run on meet the contract of fail_fast as well.
C14_WordLadderFailFastSound ==
    /\ WordLadderPuzzle_fail_fast(puzzle)
          <=> Len(puzzle.from_word) /= Len(puzzle.to_word)
    /\ \A e \in Range(WordLadderPuzzle_extensions(puzzle)) :
          /\ Len(e.from_word) = Len(puzzle.from_word)
          /\ e.to_word = puzzle.to_word
          /\ e.word_set = puzzle.word_set
    /\ WordLadderPuzzle_fail_fast(puzzle) =>
          \A r \in WordLadderReachable({puzzle}) :
              ~WordLadderPuzzle_is_solved(r)
    /\ FailFastSound

\* fail_fast is true on a puzzle that has extensions, the goal word is in
\* the word set, and depth_first_solve has returned nothing on it
C14_Witness ==
    /\ WordLadderPuzzle_fail_fast(puzzle)
    /\ WordLadderPuzzle_extensions(puzzle) /= <<>>
    /\ puzzle.to_word \in puzzle.word_set
    /\ DfsReturned
    /\ dfs_result = None

\* ---- grid_peg_solitaire_puzzle.py ------------------------------------
\* A marker grid is the list of its rows, a row the list of its markers:
\* "*" a peg, "." an empty cell, "#" an unused one.  Rows and columns are
\* counted from 0, as in the code.

\* largest number of cells of a grid
MaxCells == 9

\* Python's l[i], l[:j] and l[i:] for a list l: a negative index counts
\* from the end; l[i] raises IndexError outside the list
PyGet(l, i) ==
    IF i >= Len(l) \/ i < 0 - Len(l)
    THEN "IndexError"
    ELSE IF i >= 0 THEN l[i + 1] ELSE l[Len(l) + i + 1]
PyTo(l, j) ==
    SubSeq(l, 1, IF j >= 0 THEN Min(j, Len(l)) ELSE Max(Len(l) + j, 0))
PyFrom(l, i) ==
    SubSeq(l, (IF i >= 0 THEN Min(i, Len(l)) ELSE Max(Len(l) + i, 0)) + 1,
           Len(l))

\* GridPegSolitairePuzzle(marker, marker_set)
GridPegSolitairePuzzle(marker, marker_set) ==
    [marker |-> marker, marker_set |-> marker_set]

\* the four ifs of extensions for the peg at (row, column): a jump to the
\* left, to the right, up, down; lowest is the least index that
\* `(column - 2) in range(...)` accepts, which is 0
PegJumps(p, row, column, lowest) ==
    LET marker == p.marker
        line == PyGet(marker, row)
    IN (IF /\ column - 2 >= lowest /\ column - 2 < Len(line)
           /\ PyGet(line, column - 2) = "."
           /\ PyGet(line, column - 1) = "*"
        THEN <<GridPegSolitairePuzzle(
                  [marker EXCEPT ![row + 1] =
                      PyTo(line, column - 2) \o <<"*", ".", ".">>
                      \o PyFrom(line, column + 1)],
                  {"*", ".", "#"})>>
        ELSE <<>>)
       \o (IF /\ column + 2 >= 0 /\ column + 2 < Len(line)
              /\ PyGet(line, column + 2) = "."
              /\ PyGet(line, column + 1) = "*"
           THEN <<GridPegSolitairePuzzle(
                     [marker EXCEPT ![row + 1] =
                         PyTo(line, column) \o <<".", ".", "*">>
                         \o PyFrom(line, column + 3)],
                     {"*", ".", "#"})>>
           ELSE <<>>)
       \o (IF /\ row - 2 >= 0 /\ row - 2 < Len(marker)
              /\ PyGet(PyGet(marker, row - 2), column) = "."
              /\ PyGet(PyGet(marker, row - 1), column) = "*"
           THEN <<GridPegSolitairePuzzle(
                     [marker EXCEPT ![row - 1][column + 1] = "*",
                                    ![row][column + 1] = ".",
                                    ![row + 1][column + 1] = "."],
                     {"*", ".", "#"})>>
           ELSE <<>>)
       \o (IF /\ row + 2 >= 0 /\ row + 2 < Len(marker)
              /\ PyGet(PyGet(marker, row + 2), column) = "."
              /\ PyGet(PyGet(marker, row + 1), column) = "*"
           THEN <<GridPegSolitairePuzzle(
                     [marker EXCEPT ![row + 3][column + 1] = "*",
                                    ![row + 2][column + 1] = ".",
                                    ![row + 1][column + 1] = "."],
                     {"*", ".", "#"})>>
           ELSE <<>>)

\* the loops over the rows and the columns, from cell number k on, cells
\* counted row by row from 0
RECURSIVE PegExtensionsFrom(_, _, _)
PegExtensionsFrom(p, k, lowest) ==
    LET width == Len(p.marker[1]) IN
    IF k >= Len(p.marker) * width
    THEN <<>>
    ELSE LET row == k \div width
             column == k % width
         IN (IF PyGet(PyGet(p.marker, row), column) = "*"
             THEN PegJumps(p, row, column, lowest)
             ELSE <<>>)
            \o PegExtensionsFrom(p, k + 1, lowest)

\* extensions whose jump to the left does not test column - 2 from below
GridPegSolitairePuzzle_extensionsNoLowerTest(p) ==
    PegExtensionsFrom(p, 0, 0 - 2)

\* GridPegSolitairePuzzle.extensions
GridPegSolitairePuzzle_extensions(p) == PegExtensionsFrom(p, 0, 0)

\* GridPegSolitairePuzzle.is_solved: exactly one peg
GridPegSolitairePuzzle_is_solved(p) ==
    Cardinality({rc \in (1..Len(p.marker)) \X (1..Len(p.marker[1])) :
                    p.marker[rc[1]][rc[2]] = "*"}) = 1

\* the numbers of rows and columns of the grids of at most MaxCells cells
PegShapes ==
    {xy \in (1..MaxCells) \X (1..MaxCells) : xy[1] * xy[2] <= MaxCells}

\* the marker sets of the puzzles
PegMarkerSets == {{"*", "."}, {"*", ".", "#"}}

\* the driver holds a GridPegSolitairePuzzle that __init__ accepts, of at
\* most MaxCells cells, and takes extensions of it; no solver runs
PegInit ==
    /\ \E xy \in PegShapes, marker_set \in PegMarkerSets :
          \E marker \in [1..xy[1] -> [1..xy[2] -> marker_set]] :
              puzzle = GridPegSolitairePuzzle(marker, marker_set)
    /\ extensions = <<>>
    /\ is_solved = <<>>
    /\ fail_fast = <<>>
    /\ pc = "extensions"
    /\ NotStarted

\* the driver goes on with one of the extensions of its puzzle
PegExtend ==
    /\ pc = "extensions"
    /\ puzzle' \in Range(GridPegSolitairePuzzle_extensions(puzzle))
    /\ UNCHANGED <<extensions, is_solved, fail_fast, solverVars>>

PegNext == PegExtend

PegSpec == PegInit /\ [][PegNext]_vars

\* ---- C15 -------------------------------------------------------------
\* the cells of a marker grid, rows and columns counted from 1
Cells(marker) == (1..Len(marker)) \X (1..Len(marker[1]))

\* the four directions of a jump: left, right, up, down
Directions == {<<0, 0 - 1>>, <<0, 1>>, <<0 - 1, 0>>, <<1, 0>>}

\* the legal jumps <<a, b, c>>: a peg at cell a, a peg next to it at cell
\* b, to the left, to the right, above or below, and an empty cell c of
\* the grid right behind b, in the same direction
LegalJumps(marker) ==
    {j \in {<<a, <<a[1] + d[1], a[2] + d[2]>>,
                 <<a[1] + 2 * d[1], a[2] + 2 * d[2]>>>> :
                a \in Cells(marker), d \in Directions} :
        /\ j[3] \in Cells(marker)
        /\ marker[j[1][1]][j[1][2]] = "*"
        /\ marker[j[2][1]][j[2][2]] = "*"
        /\ marker[j[3][1]][j[3][2]] = "."}

\* the grid after the jump j: the jumping peg's cell and the cell jumped
\* over are empty, the cell landed on holds a peg, the others are as before
AfterJump(marker, j) ==
    [r \in 1..Len(marker) |->
        [c \in 1..Len(marker[1]) |->
            IF <<r, c>> \in {j[1], j[2]} THEN "."
            ELSE IF <<r, c>> = j[3] THEN "*"
            ELSE marker[r][c]]]

\* C15: GridPegSolitairePuzzle.extensions returns one puzzle for every
\* legal jump, holding the grid after that jump, and nothing else.
C15_PegExtensions ==
    LET exts == GridPegSolitairePuzzle_extensions(puzzle) IN
    /\ {e.marker : e \in Range(exts)} =
          {AfterJump(puzzle.marker, j) : j \in LegalJumps(puzzle.marker)}
    /\ Len(exts) = Cardinality(LegalJumps(puzzle.marker))

\* a grid with an unused cell where one peg can jump along its row and one
\* along its column, and where a peg in the first two columns would find
\* an empty cell by counting columns on from the end of its row
C15_Witness ==
    /\ \E j, k \in LegalJumps(puzzle.marker) :
          j[1][1] = j[3][1] /\ k[1][2] = k[3][2]
    /\ \E rc \in Cells(puzzle.marker) : puzzle.marker[rc[1]][rc[2]] = "#"
    /\ \E r \in 1..Len(puzzle.marker) :
          /\ puzzle.marker[r][1] = "*"
          /\ puzzle.marker[r][Len(puzzle.marker[r])] = "*"
          /\ puzzle.marker[r][Len(puzzle.marker[r]) - 1] = "."

\* ---- PuzzleNode.__eq__ ------------------------------------------------
\* largest number of nodes of the arena the driver builds
MaxNodes == 4

\* __eq__ that only looks for the children of other among those of self
RECURSIVE PuzzleNode_eqOneWay(_, _)
PuzzleNode_eqOneWay(self, other) ==
    /\ other /= None
    /\ nodes[self].puzzle = nodes[other].puzzle
    /\ \A x \in Range(nodes[other].children) :
          \E y \in Range(nodes[self].children) :
              y = x \/ PuzzleNode_eqOneWay(y, x)

\* PuzzleNode.__eq__(self, other) for a node self and other a node or
\* None: the types are the same, the puzzles equal, and each child of one
\* is `in` the children of the other (x in l: some y of l is x or y == x)
RECURSIVE PuzzleNode_eq(_, _)
PuzzleNode_eq(self, other) ==
    /\ other /= None
    /\ nodes[self].puzzle = nodes[other].puzzle
    /\ \A x \in Range(nodes[other].children) :
          \E y \in Range(nodes[self].children) :
              y = x \/ PuzzleNode_eq(y, x)
    /\ \A x \in Range(nodes[self].children) :
          \E y \in Range(nodes[other].children) :
              y = x \/ PuzzleNode_eq(y, x)

\* the driver builds nodes; it holds no puzzle and no solver runs
NodeInit ==
    /\ puzzle = None
    /\ extensions = <<>>
    /\ is_solved = <<>>
    /\ fail_fast = <<>>
    /\ pc = "nodes"
    /\ NotStarted

\* PuzzleNode(1), PuzzleNode(2), or PuzzleNode(1, parent=...,
\* in_solution=True) with the node constructed last as parent
NodeConstruct ==
    /\ pc = "nodes"
    /\ Len(nodes) < MaxNodes
    /\ \E node \in {PuzzleNode(1), PuzzleNode(2),
                    [PuzzleNode(1) EXCEPT !.parent = Len(nodes),
                                          !.in_solution = TRUE]} :
          nodes' = Append(nodes, node)
    /\ UNCHANGED <<puzzleVars, pc, bfsVars, dfsVars>>

\* n.children.append(c) for a node c constructed after n, as in both
\* solvers; a node gets two children at most
NodeAppendChild ==
    /\ pc = "nodes"
    /\ \E n, c \in 1..Len(nodes) :
          /\ n < c
          /\ Len(nodes[n].children) < 2
          /\ nodes' = [nodes EXCEPT ![n].children = Append(@, c)]
    /\ UNCHANGED <<puzzleVars, pc, bfsVars, dfsVars>>

NodeNext ==
    \/ NodeConstruct
    \/ NodeAppendChild

NodeSpec == NodeInit /\ [][NodeNext]_vars

\* ---- C16 -------------------------------------------------------------
\* what node n looks like when its children are taken as a set,
\* recursively, and its parent and in_solution are left out
RECURSIVE Shape(_)
Shape(n) ==
    [puzzle |-> nodes[n].puzzle,
     children |-> {Shape(c) : c \in Range(nodes[n].children)}]

\* C16: a PuzzleNode equals another value exactly when that value is a
\* PuzzleNode, their puzzles are equal and their children are equal as
\* sets, recursively; parent and in_solution play no part.
C16_NodeEquality ==
    \A a \in 1..Len(nodes), b \in 0..Len(nodes) :
        PuzzleNode_eq(a, b) <=> (b /= None /\ Shape(a) = Shape(b))

\* two nodes are equal although they differ in parent and in_solution and
\* their children are other nodes, not as many
C16_Witness ==
    \E a, b \in 1..Len(nodes) :
        /\ PuzzleNode_eq(a, b)
        /\ nodes[a].parent /= nodes[b].parent
        /\ nodes[a].in_solution /= nodes[b].in_solution
        /\ Len(nodes[a].children) = 2 /\ Len(nodes[b].children) = 1
        /\ Range(nodes[a].children) \cap Range(nodes[b].children) = {}

\* ---- C17 -------------------------------------------------------------
\* the configurations of the calls of _depth_first_solve that are in
\* their for loop, the outermost first: the recursion path.  A call that
\* returns before the loop is one level deeper than the last of them.
RecursionPath == [i \in 1..Len(stack) |-> stack[i].puzz]

\* some move can be taken back at once: s has an extension t that is not
\* s, and t has s as an extension
HasTwoCycle ==
    \E s, t \in DOMAIN extensions :
        s /= t /\ t \in Range(extensions[s]) /\ s \in Range(extensions[t])

\* C17: the configurations on the recursion path of depth_first_solve are
\* pairwise distinct, and the recursion is never deeper than the number of
\* configurations reachable from the initial one, plus one.
C17_PathDistinct ==
    /\ Distinct(RecursionPath)
    /\ Len(stack) + 1 <=
          Cardinality(ReachableFrom(extensions, {InitialPuzzle})) + 1

\* every reachable configuration is on the recursion path, three at
\* least, the last one has an extension back to an earlier one, and some
\* move can be taken back at once
C17_Witness ==
    /\ Len(stack) >= 3
    /\ Len(stack) = Cardinality(ReachableFrom(extensions, {InitialPuzzle}))
    /\ \E i \in 1..(Len(stack) - 1) :
          stack[i].puzz \in Range(extensions[Top.puzz])
    /\ HasTwoCycle

\* ---- C18 -------------------------------------------------------------
\* the seen of every call in its for loop, which is the seen it hands to
\* the calls on its extensions, holds the nodes of the calls of the
\* recursion path down to its own, and nothing else
SeenIsRecursionPath ==
    \A i \in 1..Len(stack) :
        stack[i].seen = [j \in 1..i |-> stack[j].curr_node]

\* a step in which _depth_first_solve is called on a configuration goes
\* on to expand it exactly when it is not on the recursion path and
\* neither fail_fast nor is_solved holds of it, whatever was explored
\* before
ExpandsUnlessOnPath ==
    (pc \in {"main_dfs", "dfs"} /\ Len(nodes') = Len(nodes) + 1) =>
        LET p == nodes'[Len(nodes')].puzzle IN
        (Len(stack') = Len(stack) + 1)
            <=> (p \notin Range(RecursionPath)
                 /\ ~fail_fast[p] /\ ~is_solved[p])

\* C18: the seen of depth_first_solve is local to the recursion path: the
\* seen handed to the call on an extension is the caller's seen and the
\* caller's node, which are the ancestors of that call, and nothing
\* recorded in the exploration of one extension is there in that of the
\* next; so a configuration that was explored and abandoned is expanded
\* again when it is reached on another branch.
C18_SeenPathLocal ==
    /\ []SeenIsRecursionPath
    /\ [][ExpandsUnlessOnPath]_vars

\* the first call the outermost call made expanded a configuration and
\* gave it up; that configuration is being expanded again, two calls or
\* more down another branch
C18_Witness ==
    /\ Len(stack) >= 3
    /\ nodes[stack[1].curr_node + 1].puzzle = Top.puzz
    /\ stack[1].curr_node + 1 \notin {stack[i].curr_node : i \in 1..Len(stack)}

\* ---- C19 -------------------------------------------------------------
\* _depth_first_solve(puzz, seen) on the puzzle (ext, solved, ff), as the
\* chain it returns (<<>> for None) and the seen it leaves behind; with
\* shared = FALSE the seen of a call is its own, as in the source, and with
\* shared = TRUE one seen is shared by all the calls of the search, nothing
\* else being changed
RECURSIVE DepthFirstSeen(_, _, _, _, _, _)
RECURSIVE DepthFirstSeenLoop(_, _, _, _, _, _, _)
DepthFirstSeen(ext, solved, ff, shared, puzz, seenStates) ==
    IF puzz \in seenStates
    THEN [chain |-> <<>>, seen |-> seenStates]
    ELSE IF ff[puzz]
    THEN [chain |-> <<>>, seen |-> seenStates \cup {puzz}]
    ELSE IF solved[puzz]
    THEN [chain |-> <<puzz>>, seen |-> seenStates]
    ELSE LET sub == DepthFirstSeenLoop(ext, solved, ff, shared, ext[puzz],
                                       1, seenStates \cup {puzz})
         IN [chain |-> IF sub.chain /= <<>>
                       THEN <<puzz>> \o sub.chain ELSE <<>>,
             seen |-> sub.seen]

DepthFirstSeenLoop(ext, solved, ff, shared, exts, i, seenStates) ==
    IF i > Len(exts)
    THEN [chain |-> <<>>, seen |-> seenStates]
    ELSE LET new_node == DepthFirstSeen(ext, solved, ff, shared, exts[i],
                                        seenStates)
         IN IF new_node.chain /= <<>>
            THEN new_node
            ELSE DepthFirstSeenLoop(ext, solved, ff, shared, exts, i + 1,
                                    IF shared THEN new_node.seen
                                    ELSE seenStates)

\* the chain depth_first_solve returns on a puzzle, with a seen of either
\* kind
DepthFirstSolveSeen(ext, solved, ff, shared) ==
    DepthFirstSeen(ext, solved, ff, shared, InitialPuzzle, {}).chain

\* depth_first_solve with a shared seen returns nothing on the puzzle of
\* the run
SharedSeenLoses ==
    DepthFirstSolveSeen(extensions, is_solved, fail_fast, TRUE) = <<>>

NoFailFastOnPath ==
    \A i \in 1..Len(stack) : ~fail_fast[stack[i].puzz]

\* a chain depth_first_solve returned holds no configuration of which
\* fail_fast holds
NoFailFastOnChain ==
    (DfsReturned /\ dfs_result /= None) =>
        \A s \in Range(ChainStates(dfs_result)) : ~fail_fast[s]

\* a step in which _depth_first_solve is called on a configuration of
\* which fail_fast holds returns None and enters no loop, whatever
\* is_solved says of it
FailFastReturnsNone ==
    (/\ pc \in {"main_dfs", "dfs"}
     /\ Len(nodes') = Len(nodes) + 1
     /\ fail_fast[nodes'[Len(nodes')].puzzle])
        => (ret' = <<None>> /\ stack' = stack)

\* C20: depth_first_solve tests fail_fast before is_solved: a call on a
\* configuration of which fail_fast holds returns nothing and never calls
\* extensions() on it, even if is_solved holds of it too; so no chain
\* depth_first_solve returns holds a configuration of which fail_fast
\* holds.
C20_FailFastBeforeSolved ==
    /\ [](NoFailFastOnPath /\ NoFailFastOnChain)
    /\ [][FailFastReturnsNone]_vars

\* depth_first_solve was called on a configuration of which both fail_fast
\* and is_solved hold, returned nothing from that call, and went on to
\* return a chain of two configurations or more that ends elsewhere
C20_Witness ==
    /\ DfsReturned
    /\ dfs_result /= None
    /\ Len(ChainNodes(dfs_result)) >= 2
    /\ \E n \in DfsNodes :
          /\ n \notin OnChain(dfs_result)
          /\ fail_fast[nodes[n].puzzle]
          /\ is_solved[nodes[n].puzzle]

\* ---- C21 -------------------------------------------------------------
\* the puzzle without the moves out of configuration s
WithoutMovesFrom(s) ==
    [c \in DOMAIN extensions |-> IF c = s THEN <<>> ELSE extensions[c]]

\* s lies on every path from the initial configuration to a solved one: no
\* solved configuration but s is reached without a move out of s
OnEverySolution(s) ==
    (ReachableFrom(WithoutMovesFrom(s), {InitialPuzzle}) \ {s}) \cap Solved = {}

\* a solved configuration is reachable and fail_fast holds of a
\* configuration that every path to a solved one goes through
FailFastCutsSolutions ==
    /\ CanReachSolved(InitialPuzzle)
    /\ \E s \in DOMAIN fail_fast : fail_fast[s] /\ OnEverySolution(s)

\* depth_first_solve is running
DfsRunning == pc \in {"main_dfs", "dfs"}

\* C21: when fail_fast holds of a configuration that lies on every path
\* from the initial configuration to a solved one, depth_first_solve
\* returns nothing although a solved configuration is reachable; it raises
\* no fault: while it runs it always has a next step, up to its return.
C21_UnsoundFailFastSilent ==
    /\ (DfsReturned /\ FailFastCutsSolutions) => dfs_result = None
    /\ DfsRunning => ENABLED Next

\* depth_first_solve returned nothing on a puzzle breadth_first_solve
\* solved in two steps or more, fail_fast being false of the initial
\* configuration
C21_Witness ==
    /\ DfsReturned
    /\ FailFastCutsSolutions
    /\ ~fail_fast[InitialPuzzle]
    /\ dfs_result = None
    /\ bfs_result /= None
    /\ ChainSteps(bfs_result) >= 2

\* ---- C22 -------------------------------------------------------------
\* a step of a call whose recursive call has just returned a node that is
\* in the solution attaches that node as the only child and leaves the loop
AttachesFirstSuccess ==
    (/\ pc = "dfs" /\ stack /= <<>> /\ ret /= <<>>
     /\ ret[1] /= None /\ nodes[ret[1]].in_solution)
        => /\ nodes'[Top.curr_node].children = <<ret[1]>>
           /\ Len(stack') = Len(stack)
           /\ stack'[Len(stack)].broke

\* a call that has left its loop makes no further recursive call: its next
\* step constructs no node and is its return
NoCallAfterSuccess ==
    (pc = "dfs" /\ stack /= <<>> /\ Top.broke)
        => /\ nodes'[Top.curr_node].children = nodes[Top.curr_node].children
           /\ Len(nodes') = Len(nodes)
           /\ stack' = SubSeq(stack, 1, Len(stack) - 1)
           /\ ret' = <<Top.curr_node>>

\* a call that left its loop has one child, the node of the extension the
\* loop had come to; the calls below it in the stack are still in theirs
BrokeOnFirstSuccess ==
    \A d \in 1..Len(stack) :
        IF stack[d].broke
        THEN /\ d = Len(stack)
             /\ Len(nodes[stack[d].curr_node].children) = 1
             /\ nodes[nodes[stack[d].curr_node].children[1]].puzzle
                    = extensions[stack[d].puzz][stack[d].i]
        ELSE nodes[stack[d].curr_node].children = <<>>

\* C22: in depth_first_solve, as soon as the recursive call on an
\* extension of a configuration yields a node that is in the solution,
\* that node is attached as the only child of the configuration's node and
\* no recursive call is made on an extension that follows it in the list.
C22_StopsAtFirstSuccess ==
    /\ []BrokeOnFirstSuccess
    /\ [][AttachesFirstSuccess /\ NoCallAfterSuccess]_vars

\* a call has left its loop with one child while an extension that no call
\* was ever made on follows in its list
C22_Witness ==
    /\ pc = "dfs" /\ stack /= <<>> /\ Top.broke
    /\ Len(nodes[Top.curr_node].children) = 1
    /\ Top.i < Len(extensions[Top.puzz])
    /\ extensions[Top.puzz][Top.i + 1] \notin {nodes[n].puzzle : n \in DfsNodes}

\* ---- puzzles of one configuration more --------------------------------
\* The puzzles of Spec and those of NumStates + 1 configurations within the
\* same number of moves: among the latter, a configuration is an extension
\* of two configurations that are both extensions of the initial one.
LargerPuzzleGraphs ==
    UNION {PuzzleGraphsFrom(<<>>, n, MaxMoves, 1) : n \in 1..(NumStates + 1)}

LargerInit ==
    /\ puzzle = InitialPuzzle
    /\ extensions \in LargerPuzzleGraphs
    /\ is_solved \in [DOMAIN extensions -> BOOLEAN]
    /\ fail_fast \in [DOMAIN extensions -> BOOLEAN]
    /\ pc = "main_bfs"
    /\ nodes = <<>>
    /\ q = <<>>
    /\ seen = <<>>
    /\ curr_node = None
    /\ bfs_result = None
    /\ stack = <<>>
    /\ ret = <<>>
    /\ dfs_result = None

LargerSpec == LargerInit /\ [][Next]_vars

\* ---- C23 -------------------------------------------------------------
\* breadth_first_solve is running or has just returned: every node is one
\* of its nodes
BfsPhase == pc \in {"bfs_loop", "main_dfs"}

\* how many entries of the sequence c are x
Occurrences(c, x) == Cardinality({i \in 1..Len(c) : c[i] = x})

\* the nodes breadth_first_solve has dequeued
Dequeued == {n \in 1..Len(nodes) : n \notin Range(q)}

\* the least number of extensions from the initial configuration to s
Distance(s) == CHOOSE k \in 0..Cardinality(DOMAIN extensions) :
                   /\ s \in WithinSteps(k)
                   /\ \A j \in 0..(k - 1) : s \notin WithinSteps(j)

\* C23: in breadth_first_solve every configuration is enqueued at most
\* once over the whole search, the initial one included, and also one that
\* is an extension of two nodes of the same generation: no two nodes wrap
\* the same configuration, the queue holds no two nodes with equal
\* configurations, and every configuration is dequeued and expanded at
\* most once.
C23_EnqueuedOnce ==
    BfsPhase =>
        /\ \A n, m \in 1..Len(nodes) :
              n /= m => nodes[n].puzzle /= nodes[m].puzzle
        /\ Distinct(q)
        /\ Distinct([i \in 1..Len(q) |-> nodes[q[i]].puzzle])
        /\ \A n \in 1..Len(nodes) :
              Occurrences(seen, nodes[n].puzzle)
                  = (IF n = 1 THEN 0 ELSE 1) + (IF n \in Dequeued THEN 1 ELSE 0)

\* two dequeued nodes of the same generation both list a configuration
\* that was new when the first of them was dequeued; the search has since
\* dequeued the one node that wraps it
C23_Witness ==
    /\ BfsPhase
    /\ \E a, b, c \in Dequeued :
          /\ a < b /\ b < c
          /\ Distance(nodes[a].puzzle) = Distance(nodes[b].puzzle)
          /\ nodes[c].parent = a
          /\ nodes[c].puzzle \in Range(extensions[nodes[b].puzzle])

\* ---- C24 -------------------------------------------------------------
\* the number of parent links from node n up to the root
RECURSIVE Depth(_)
Depth(n) == IF nodes[n].parent = None THEN 0 ELSE 1 + Depth(nodes[n].parent)

\* every node lies as many parent links below the root as its
\* configuration lies extensions away from the initial one
DepthIsDistance ==
    BfsPhase =>
        \A n \in 1..Len(nodes) : Depth(n) = Distance(nodes[n].puzzle)

\* an iteration of the while loop dequeues a node whose configuration is
\* no nearer to the initial one than that of the node dequeued before
DequeuesFartherOn ==
    (pc = "bfs_loop" /\ pc' = "bfs_loop") =>
        /\ curr_node' = Head(q)
        /\ Distance(nodes[curr_node'].puzzle)
               >= Distance(nodes[curr_node].puzzle)

\* C24: breadth_first_solve dequeues nodes in non-decreasing order of
\* distance from the initial configuration, and the number of parent
\* links from any node it constructs back to the root is the least number
\* of extensions from the initial configuration to the node's.
C24_BfsByDistance ==
    /\ []DepthIsDistance
    /\ [][DequeuesFartherOn]_vars

\* a node two links below the root was dequeued, after a node one link
\* below it whose configuration is also listed by a node that is not its
\* parent and no nearer to the root than it
C24_Witness ==
    /\ BfsPhase
    /\ \E n, m, d \in Dequeued :
          /\ Depth(d) = 2
          /\ Depth(n) = 1
          /\ m /= nodes[n].parent
          /\ nodes[n].puzzle \in Range(extensions[nodes[m].puzzle])
          /\ Depth(m) >= Depth(n)

\* ---- C25 -------------------------------------------------------------
\* is_solved holds of no configuration of the sequence c but the last
SolvedOnlyAtEnd(c) == \A i \in 1..(Len(c) - 1) : ~is_solved[c[i]]

\* C25: in a chain returned by either solver the last configuration is
\* the only one of which is_solved holds: depth_first_solve never expands
\* a solved configuration, and breadth_first_solve dequeues no node once
\* it has dequeued a solved one.
C25_SolvedOnlyLast ==
    /\ (BfsReturned /\ bfs_result /= None) =>
          /\ SolvedOnlyAtEnd(ChainStates(bfs_result))
          /\ is_solved[ChainStates(bfs_result)[Len(ChainStates(bfs_result))]]
    /\ (DfsReturned /\ dfs_result /= None) =>
          /\ SolvedOnlyAtEnd(ChainStates(dfs_result))
          /\ is_solved[ChainStates(dfs_result)[Len(ChainStates(dfs_result))]]
    /\ \A d \in 1..Len(stack) : ~is_solved[stack[d].puzz]
    /\ pc = "bfs_loop" =>
          \A n \in Dequeued \ {curr_node} : ~is_solved[nodes[n].puzzle]

\* both solvers returned chains of one step or more that end at a solved
\* configuration one of whose extensions is another solved configuration
C25_Witness ==
    /\ DfsReturned
    /\ bfs_result /= None /\ dfs_result /= None
    /\ ChainSteps(bfs_result) >= 1
    /\ ChainSteps(dfs_result) >= 1
    /\ \E c \in {ChainStates(bfs_result), ChainStates(dfs_result)} :
          \E t \in Range(extensions[c[Len(c)]]) :
              t /= c[Len(c)] /\ is_solved[t] /\ t \notin Range(c)

\* ---- C26 -------------------------------------------------------------
\* _breadth_first_solve as a function of the extensions and of is_solved
\* alone: the configurations it dequeues, in order, and the chain it
\* returns (<<>> for None); a queued node is given by the path of
\* configurations its parent links spell
RECURSIVE BreadthFirstDequeues(_, _, _, _, _, _)
BreadthFirstDequeues(ext, solved, curr, qq, sn, out) ==
    IF ~solved[curr[Len(curr)]] /\ Len(qq) > 0
    THEN LET c == Head(qq)
             r == BreadthFirstExtend(ext[c[Len(c)]], 1, c, Tail(qq),
                                     sn \cup {c[Len(c)]})
         IN BreadthFirstDequeues(ext, solved, c, r.q, r.seen,
                                 Append(out, c[Len(c)]))
    ELSE [chain |-> IF solved[curr[Len(curr)]] THEN curr ELSE <<>>,
          dequeues |-> out]

BreadthFirstSearch(ext, solved) ==
    BreadthFirstDequeues(ext, solved, <<InitialPuzzle>>,
                         <<<<InitialPuzzle>>>>, {}, <<>>)

\* an iteration of the while loop dequeues the configuration that comes
\* next in the sequence the extensions and is_solved determine
DequeuesAsDetermined ==
    (pc = "bfs_loop" /\ pc' = "bfs_loop") =>
        LET k == Cardinality(Dequeued) + 1
            d == BreadthFirstSearch(extensions, is_solved).dequeues
        IN /\ k <= Len(d)
           /\ nodes'[curr_node'].puzzle = d[k]
           /\ Cardinality({n \in 1..Len(nodes') : n \notin Range(q')}) = k

\* breadth_first_solve returns after as many dequeues as that sequence is
\* long, with the chain that goes with it
ReturnsAsDetermined ==
    pc = "main_dfs" =>
        LET r == BreadthFirstSearch(extensions, is_solved) IN
        /\ Cardinality(Dequeued) = Len(r.dequeues)
        /\ Returned(bfs_result) = r.chain

\* C26: breadth_first_solve never consults fail_fast: the sequence of its
\* dequeues and the chain it returns are determined by the extensions and
\* is_solved, so they are the same on two puzzles that differ in fail_fast
\* only; under an unsound fail_fast it can return a chain where
\* depth_first_solve returns nothing.
C26_BfsIgnoresFailFast ==
    /\ []ReturnsAsDetermined
    /\ [][DequeuesAsDetermined]_vars

\* breadth_first_solve returned a chain through a configuration of which
\* fail_fast holds, the last one excepted, and depth_first_solve returned
\* nothing
C26_Witness ==
    /\ DfsReturned
    /\ ~FailFastSound
    /\ bfs_result /= None
    /\ dfs_result = None
    /\ \E i \in 2..(Len(ChainStates(bfs_result)) - 1) :
          fail_fast[ChainStates(bfs_result)[i]]

\* ---- C27 -------------------------------------------------------------
\* how many cells of the grid of p hold the mark x
Marked(p, x) ==
    Cardinality({rc \in Cells(p.marker) : p.marker[rc[1]][rc[2]] = x})

\* the puzzles exactly i extensions away from those of the set ps
RECURSIVE PegAfter(_, _)
PegAfter(ps, i) ==
    IF i = 0
    THEN ps
    ELSE PegAfter(UNION {Range(GridPegSolitairePuzzle_extensions(p)) : p \in ps},
                  i - 1)

\* the puzzles one extension away from those of the set ps
PegStep(ps) == UNION {Range(GridPegSolitairePuzzle_extensions(p)) : p \in ps}

\* ps being the puzzles exactly i extensions away from p: from there on, p
\* is not met again within `fuel` extensions, and a solved puzzle is met
\* only k - 1 extensions away from p
RECURSIVE PegChainsFrom(_, _, _, _, _)
PegChainsFrom(p, ps, i, k, fuel) ==
    /\ i >= 1 => p \notin ps
    /\ \A s \in ps : GridPegSolitairePuzzle_is_solved(s) => i = k - 1
    /\ (fuel > 0 /\ ps /= {}) => PegChainsFrom(p, PegStep(ps), i + 1, k, fuel - 1)

\* C27: every puzzle GridPegSolitairePuzzle.extensions returns has one peg
\* fewer than the puzzle it extends and as many unused cells; so no puzzle
\* is reached again from itself, a puzzle of one peg, which is solved, has
\* no extensions, and every sequence of extensions from a puzzle of k pegs
\* to a solved one has k - 1 steps.
C27_PegCountDecreases ==
    LET k == Marked(puzzle, "*") IN
    /\ \A e \in Range(GridPegSolitairePuzzle_extensions(puzzle)) :
          /\ Marked(e, "*") = k - 1
          /\ Marked(e, "#") = Marked(puzzle, "#")
    /\ GridPegSolitairePuzzle_is_solved(puzzle) =>
          /\ k = 1
          /\ GridPegSolitairePuzzle_extensions(puzzle) = <<>>
    /\ PegChainsFrom(puzzle, {puzzle}, 0, k,
                     Len(puzzle.marker) * Len(puzzle.marker[1]))

\* a grid with an unused cell and four pegs or more, from which one solved
\* puzzle is three jumps away and another puzzle that has no extensions
\* is reached sooner
C27_Witness ==
    LET k == Marked(puzzle, "*") IN
    /\ k >= 4
    /\ Marked(puzzle, "#") >= 1
    /\ \E s \in PegAfter({puzzle}, k - 1) : GridPegSolitairePuzzle_is_solved(s)
    /\ \E i \in 1..(k - 2) : \E s \in PegAfter({puzzle}, i) :
          GridPegSolitairePuzzle_extensions(s) = <<>>

====
